---- MODULE Spec2Model ----
(***************************************************************************)
(* A model of the raster scripts of Automated-Rock-Glacier-Detection:      *)
(*   - the tiling scripts (sent-1_croper.py, tif_crop.py, tif_cropper.py), *)
(*   - the Sentinel-1 / Sentinel-2 overlap crop (Sentinel Subsetting.py),  *)
(*   - the Sentinel-2 band loader (ndvi_savi_swir.py),                     *)
(*   - the fusion pipeline (fusion.py).                                    *)
(* Each script has its own specification over its own variables; the       *)
(* variables of the other scripts stay at their idle values.               *)
(***************************************************************************)
EXTENDS Integers, Sequences, FiniteSets, TLC

(***************************************************************************)
(* Bounds of the model.                                                    *)
(***************************************************************************)
MaxDim == 5        \* largest array dimension of a small input image
MaxTile == 3       \* largest tile size tried on the small input images
MaxBands == 2      \* largest band count of a small rasterio raster

(***************************************************************************)
(* Program constants.                                                      *)
(***************************************************************************)
DefaultCropSize == 1024   \* tile_size / crop_size=1024
GlcmBandLimit == 10       \* min(src.count, 10)

(***************************************************************************)
(* Python helpers.                                                         *)
(***************************************************************************)
Min(a, b) == IF a < b THEN a ELSE b
Max(a, b) == IF a > b THEN a ELSE b

\* range(0, stop, step) as the sequence of its values
PyRange(stop, step) == [k \in 1..((stop + step - 1) \div step) |-> (k - 1) * step]

\* range(n)
PyRange0(n) == [k \in 1..n |-> k - 1]

PySliceNoClamp(start, stop, n) == <<start, stop>>

\* a[start:stop] on an axis of length n, 0 <= start: the half-open interval
\* of indices it selects, as <<first, past-the-last>>
PySlice(start, stop, n) ==
    LET lo == Min(start, n)
        hi == Min(stop, n)
    IN  <<lo, Max(lo, hi)>>

RECURSIVE Flatten(_)
Flatten(ss) == IF ss = <<>> THEN <<>> ELSE Head(ss) \o Flatten(Tail(ss))

RECURSIVE Join(_)
\* "".join(chars)
Join(chars) == IF chars = <<>> THEN "" ELSE Head(chars) \o Join(Tail(chars))

RECURSIVE SelectChars(_, _)
\* "".join(c for c in s if c in keep), on sequences of characters
SelectChars(s, keep) ==
    IF s = <<>> THEN <<>>
    ELSE (IF Head(s) \in keep THEN <<Head(s)>> ELSE <<>>) \o SelectChars(Tail(s), keep)

(***************************************************************************)
(* File names are sequences of one-character strings.                      *)
(***************************************************************************)
Letters == {"s", "t", "i", "f", "a", "x"}
Digits == {"0", "1", "2", "3", "4", "5", "6", "7", "8", "9"}
AlnumChars == Letters \cup Digits

\* os.path.splitext(name)[0]: the name up to its last dot, when that dot is
\* not part of the leading run of dots
splitext_root(name) ==
    LET dots == {k \in 1..Len(name) : name[k] = "."}
        last == CHOOSE k \in dots : \A m \in dots : m <= k
    IN  IF dots = {} THEN name
        ELSE IF \A k \in 1..(last - 1) : name[k] = "." THEN name
        ELSE SubSeq(name, 1, last - 1)

\* "".join(c for c in base_filename if c.isalnum() or c in ('-', '_'))
safe_name(base) == SelectChars(base, AlnumChars \cup {"-", "_"})

FileNames ==
    { <<"s", "2", ".", "t", "i", "f">>,
      <<"s", "-", "1", " ", "a", ".", "t", "i", "f", "f">> }

BatchTimestamps == {"20250102_121037"}

(***************************************************************************)
(* Tiling: sent-1_croper.py (clamp), tif_crop.py (clamp) and               *)
(* tif_cropper.py (truncate).  A tile is the record of one written file:   *)
(* its name, the pixel window it holds (row, col, h, w: origin and size of *)
(* the file, as its header records them), the band it holds (0: every     *)
(* band of the source), the page of the source it was cut from and the     *)
(* height and width of the array written into it (data_h, data_w: those of *)
(* the file, unless the writer sets the header apart from the data).       *)
(***************************************************************************)
Tile(name, row, col, h, w, band, page) ==
    [name |-> name, row |-> row, col |-> col, h |-> h, w |-> w,
     band |-> band, page |-> page, data_h |-> h, data_w |-> w]

\* glcm_bands.get(band, f"Band_{band}")
glcm_bands(band) ==
    CASE band = 1 -> "Contrast"
      [] band = 2 -> "Dissimilarity"
      [] band = 3 -> "Homogeneity"
      [] band = 4 -> "ASM"
      [] band = 5 -> "Energy"
      [] band = 6 -> "Max"
      [] band = 7 -> "Entropy"
      [] band = 8 -> "GLCM_Mean"
      [] band = 9 -> "GLCM_Variance"
      [] band = 10 -> "GLCM_Correlation"
      [] OTHER -> "Band_" \o ToString(band)

WindowLenNoClamp(tile_size, extent, off) == tile_size

\* w = min(tile_size, width - i); h = min(tile_size, height - j)
WindowLen(tile_size, extent, off) == Min(tile_size, extent - off)

\* src.read(window=Window(off, ., len, .)) without boundless: the window is
\* cut to the raster before it is read
window_read_len(extent, off, len) == Max(0, Min(len, extent - off))

\* the body of the two loops of crop_and_save for the window at column
\* offset i and row offset j: the files it writes, in order
crop_and_save_window(img_name, count, width, height, i, j, tile_size, glcm, ts) ==
    LET w == WindowLen(tile_size, width, i)
        h == WindowLen(tile_size, height, j)
        at == ToString(i) \o "_" \o ToString(j) \o "_" \o ts \o ".tif"
        \* meta has width w and height h; the array is what src.read returns
        \* for Window(i, j, w, h)
        written(tile) == [tile EXCEPT !.data_h = window_read_len(height, j, h),
                                      !.data_w = window_read_len(width, i, w)]
    IN  IF glcm
        THEN [band \in 1..Min(count, GlcmBandLimit) |->
                written(Tile(img_name \o "_" \o glcm_bands(band) \o "_" \o at,
                             j, i, h, w, band, 0))]
        ELSE << written(Tile(img_name \o "_" \o at, j, i, h, w, 0, 0)) >>

\* crop_and_save(image_path, output_dir, is_glcm) of sent-1_croper.py, for a
\* raster of shape <<count, height, width>>: the files it writes, in order
crop_and_save(image_path, exists, shape, tile_size, glcm, ts) ==
    IF ~exists THEN <<>>
    ELSE
    LET width == shape[3]
        height == shape[2]
        img_name == Join(splitext_root(image_path))
        cols == PyRange(width, tile_size)
        rows == PyRange(height, tile_size)
    IN  Flatten([a \in DOMAIN cols |->
          Flatten([b \in DOMAIN rows |->
            crop_and_save_window(img_name, shape[1], width, height,
                                 cols[a], rows[b], tile_size, glcm, ts)])])

\* the crop loop of process_tiff_files (tif_crop.py) on one image
process_tiff_crops(filename, shape, crop_size) ==
    IF Len(shape) < 2 THEN <<>>
    ELSE
    LET height == shape[1]
        width == shape[2]
        rows == PyRange(height, crop_size)
        cols == PyRange(width, crop_size)
    IN  Flatten([a \in DOMAIN rows |->
          [b \in DOMAIN cols |->
            LET i == rows[a]
                j == cols[b]
                rs == PySlice(i, i + crop_size, height)
                cs == PySlice(j, j + crop_size, width)
            IN  Tile(Join(filename) \o "_crop_" \o ToString(i) \o "_"
                       \o ToString(j) \o ".tif",
                     rs[1], cs[1], rs[2] - rs[1], cs[2] - cs[1], 0, 0)]])

crops_per_axis_ceil(extent, crop_size) == (extent + crop_size - 1) \div crop_size

\* crops_height = height // crop_size; crops_width = width // crop_size
crops_per_axis(extent, crop_size) == extent \div crop_size

\* the two loops shared by crop_image_slice and crop_multi_channel_image;
\* label is what the file name carries between the base name and "_crop_"
truncate_crops(height, width, original_filename, label, page, ts, crop_size) ==
    LET ys == PyRange0(crops_per_axis(height, crop_size))
        xs == PyRange0(crops_per_axis(width, crop_size))
        safe_base_name == Join(safe_name(splitext_root(original_filename)))
    IN  Flatten([a \in DOMAIN ys |->
          [b \in DOMAIN xs |->
            LET y == ys[a]
                x == xs[b]
                rs == PySlice(y * crop_size, y * crop_size + crop_size, height)
                cs == PySlice(x * crop_size, x * crop_size + crop_size, width)
            IN  Tile(safe_base_name \o label \o "_crop_" \o ToString(y) \o "_"
                       \o ToString(x) \o "_" \o ts \o ".tif",
                     rs[1], cs[1], rs[2] - rs[1], cs[2] - cs[1], 0, page)]])

\* crop_image_slice(img_slice, original_filename, slice_index, ...)
crop_image_slice(height, width, original_filename, slice_index, ts, crop_size) ==
    truncate_crops(height, width, original_filename,
                   "_slice" \o ToString(slice_index), slice_index, ts, crop_size)

\* crop_multi_channel_image(img, original_filename, ...); page is the page
\* of the stack that the caller passed as img (the function does not get it)
crop_multi_channel_image(height, width, page, original_filename, ts, crop_size) ==
    truncate_crops(height, width, original_filename, "", page, ts, crop_size)

\* one call of a tiling function, as crop_tiff_images makes it
Call(fn, height, width, page, crops) ==
    [fn |-> fn, height |-> height, width |-> width, page |-> page, crops |-> crops]

\* the rank dispatch of crop_tiff_images on an image of the given shape:
\* the calls it makes, in order
crop_tiff_dispatch(shape, filename, ts, crop_size) ==
    LET ndim == Len(shape)
    IN  IF ndim = 2
        THEN << Call("crop_image_slice", shape[1], shape[2], 0,
                     crop_image_slice(shape[1], shape[2], filename, 0, ts, crop_size)) >>
        ELSE IF ndim = 3
        THEN IF shape[3] \in {3, 4}
             THEN << Call("crop_multi_channel_image", shape[1], shape[2], 0,
                          crop_multi_channel_image(shape[1], shape[2], 0,
                                                   filename, ts, crop_size)) >>
             ELSE [k \in 1..shape[1] |->
                     Call("crop_image_slice", shape[2], shape[3], k - 1,
                          crop_image_slice(shape[2], shape[3], filename, k - 1,
                                           ts, crop_size))]
        ELSE IF ndim = 4
        THEN [k \in 1..shape[1] |->
                Call("crop_multi_channel_image", shape[2], shape[3], k - 1,
                     crop_multi_channel_image(shape[2], shape[3], k - 1,
                                              filename, ts, crop_size))]
        ELSE <<>>

\* ndim in (2, 3, 4); any other rank is "Unsupported image dimension"
supported_rank(shape) == Len(shape) \in {2, 3, 4}

\* a TIFF file as tifffile sees it: pages of height x width pixels with
\* `channels` samples per pixel stored together (1: single-band pages)
TiffImage(pages, height, width, channels) ==
    [pages |-> pages, height |-> height, width |-> width, channels |-> channels]

\* img = tifffile.imread(input_path); img.shape: the page axis comes first
\* and is there when the file has more than one page, the sample axis comes
\* last and is there when a pixel has more than one sample
imread_shape(image) ==
    (IF image.pages > 1 THEN <<image.pages>> ELSE <<>>)
      \o <<image.height, image.width>>
      \o (IF image.channels > 1 THEN <<image.channels>> ELSE <<>>)

(***************************************************************************)
(* The inputs of the tiling scripts.  A rasterio raster has the shape      *)
(* <<count, height, width>>; a tifffile image has the shape of its array.  *)
(***************************************************************************)
SmallShapes ==
    UNION {[1..r -> 1..MaxDim] : r \in 2..4}
      \cup {<<d>> : d \in 1..MaxDim}
      \cup {<<1, 1, d, d, 3>> : d \in 1..MaxDim}

ScenarioShapes == {<<2048, 2048>>, <<2049, 2049>>}

BandCounts == (1..MaxBands) \cup {GlcmBandLimit + 1}

SmallRasters == {<<c, h, w>> : c \in BandCounts, h \in 1..MaxDim, w \in 1..MaxDim}

ScenarioRasters == {<<1, 2048, 2048>>, <<1, 2049, 2049>>}

Input(lib, exists, shape) == [lib |-> lib, exists |-> exists, shape |-> shape]

SmallInputs ==
    {Input("tifffile", TRUE, s) : s \in SmallShapes}
      \cup {Input("rasterio", TRUE, s) : s \in SmallRasters}
      \cup {Input("rasterio", FALSE, <<1, 1, 1>>)}

ScenarioInputs ==
    {Input("tifffile", TRUE, s) : s \in ScenarioShapes}
      \cup {Input("rasterio", TRUE, s) : s \in ScenarioRasters}

(***************************************************************************)
(* Overlap crop (Sentinel Subsetting.py).  Coordinates are integers.  A    *)
(* coordinate reference system is given by its map to and from WGS84:      *)
(*   "EPSG:4326"    WGS84 itself;                                          *)
(*   "LOCAL_OFFSET" axes parallel to those of WGS84, origin moved (a false *)
(*                  easting and northing);                                 *)
(*   "UTM_LIKE"     grid north differs from true north (the convergence of *)
(*                  a transverse Mercator grid), here a shear: an         *)
(*                  axis-parallel rectangle of the grid is a parallelogram *)
(*                  in WGS84 and the other way round.                      *)
(***************************************************************************)
MaxCoord == 3      \* raster bounds have their corners in 0..MaxCoord

CRSs == {"EPSG:4326", "LOCAL_OFFSET", "UTM_LIKE"}

to_wgs84(crs, p) ==
    CASE crs = "EPSG:4326" -> p
      [] crs = "LOCAL_OFFSET" -> <<p[1] + 2, p[2] + 1>>
      [] crs = "UTM_LIKE" -> <<p[1] - p[2], p[2]>>

from_wgs84(crs, p) ==
    CASE crs = "EPSG:4326" -> p
      [] crs = "LOCAL_OFFSET" -> <<p[1] - 2, p[2] - 1>>
      [] crs = "UTM_LIKE" -> <<p[1] + p[2], p[2]>>

\* the coordinate transform between two reference systems, through WGS84
transform_point(src_crs, dst_crs, p) == from_wgs84(dst_crs, to_wgs84(src_crs, p))

SetMin(S) == CHOOSE v \in S : \A u \in S : v <= u
SetMax(S) == CHOOSE v \in S : \A u \in S : v >= u

\* bounds are [left, bottom, right, top]
Bounds(left, bottom, right, top) ==
    [left |-> left, bottom |-> bottom, right |-> right, top |-> top]

\* the bounding box of a non-empty sequence of points
BBox(coords) ==
    LET xs == {coords[k][1] : k \in DOMAIN coords}
        ys == {coords[k][2] : k \in DOMAIN coords}
    IN  Bounds(SetMin(xs), SetMin(ys), SetMax(xs), SetMax(ys))

\* rasterio.warp.transform_bounds: the bounding box of the transformed edge
\* of the rectangle (for these maps the corners decide it)
transform_bounds(src_crs, dst_crs, b) ==
    BBox(<< transform_point(src_crs, dst_crs, <<b.left, b.bottom>>),
            transform_point(src_crs, dst_crs, <<b.left, b.top>>),
            transform_point(src_crs, dst_crs, <<b.right, b.top>>),
            transform_point(src_crs, dst_crs, <<b.right, b.bottom>>) >>)

\* a geometry: its kind and its coordinates (a polygon's closed outer ring)
Geom(kind, coords) == [kind |-> kind, coords |-> coords]

\* shapely.geometry.box(minx, miny, maxx, maxy)
box(minx, miny, maxx, maxy) ==
    Geom("Polygon", << <<maxx, miny>>, <<maxx, maxy>>, <<minx, maxy>>,
                       <<minx, miny>>, <<maxx, miny>> >>)

intersection_min_only(a, b) ==
    LET ba == BBox(a.coords)
        bb == BBox(b.coords)
    IN  box(Min(ba.left, bb.left), Min(ba.bottom, bb.bottom),
            Min(ba.right, bb.right), Min(ba.top, bb.top))

\* a.intersection(b) for two boxes: a box, or the segment or point the two
\* share when they only touch, or the empty geometry
intersection(a, b) ==
    LET ba == BBox(a.coords)
        bb == BBox(b.coords)
        minx == Max(ba.left, bb.left)
        miny == Max(ba.bottom, bb.bottom)
        maxx == Min(ba.right, bb.right)
        maxy == Min(ba.top, bb.top)
    IN  IF minx > maxx \/ miny > maxy THEN Geom("Empty", <<>>)
        ELSE IF minx = maxx /\ miny = maxy THEN Geom("Point", << <<minx, miny>> >>)
        ELSE IF minx = maxx \/ miny = maxy
             THEN Geom("LineString", << <<minx, miny>>, <<maxx, maxy>> >>)
        ELSE box(minx, miny, maxx, maxy)

\* overlap_area.is_empty
is_empty(g) == g.kind = "Empty"

transform_geom_identity(src_crs, dst_crs, g) == g

\* rasterio.warp.transform_geom: every vertex transformed
transform_geom(src_crs, dst_crs, g) ==
    Geom(g.kind, [k \in DOMAIN g.coords |-> transform_point(src_crs, dst_crs, g.coords[k])])

\* get_bounds(filepath): (box(*wgs84_bounds), crs, bounds)
get_bounds(raster) ==
    LET wgs84_bounds == transform_bounds(raster.crs, "EPSG:4326", raster.bounds)
    IN  [wgs84 |-> box(wgs84_bounds.left, wgs84_bounds.bottom,
                       wgs84_bounds.right, wgs84_bounds.top),
         crs |-> raster.crs,
         bounds |-> raster.bounds]

\* the window mask(src, [geom], crop=True) crops to: the part of the
\* raster's bounds inside the bounding box of the geometry
mask_window(raster, geom) ==
    LET g == BBox(geom.coords)
        b == raster.bounds
    IN  Bounds(Max(g.left, b.left), Max(g.bottom, b.bottom),
               Min(g.right, b.right), Min(g.top, b.top))

HasArea(b) == b.left < b.right /\ b.bottom < b.top

mask_always_crops(raster, geom) == {"cropped"}

\* what mask(src, [geom], crop=True) can do: crop, or raise ValueError
\* ("Input shapes do not overlap raster."); a geometry that only touches
\* the raster, or has no area, may do either, depending on how its
\* coordinates round to the pixel grid
mask_outcomes(raster, geom) ==
    LET w == mask_window(raster, geom)
    IN  IF HasArea(w) /\ geom.kind = "Polygon" THEN {"cropped"}
        ELSE IF w.left <= w.right /\ w.bottom <= w.top THEN {"cropped", "ValueError"}
        ELSE {"ValueError"}

Rects ==
    {Bounds(l, b, r, t) : l \in 0..MaxCoord, b \in 0..MaxCoord,
                          r \in 0..MaxCoord, t \in 0..MaxCoord}

Rasters == {[crs |-> c, bounds |-> b] : c \in CRSs, b \in {x \in Rects : HasArea(x)}}

\* what the environment can do to one crop: nothing, or make transform_geom
\* raise ValueError or another exception, or make the write fail
CropFaults == {"none", "transform_ValueError", "transform_error", "write_error"}

(***************************************************************************)
(* Sentinel-2 band loader (ndvi_savi_swir.py, Sentinel-2 Indices.py).  A   *)
(* .SAFE product is given by the grid shape <<height, width>> of its R10m  *)
(* files, the grid shape of its R20m files and the set of bands that have  *)
(* a file.                                                                 *)
(***************************************************************************)
MaxBandDim == 3    \* largest height and width of a band file

required_bands == <<"B02", "B03", "B04", "B08", "B11", "B12">>

resolution_map(band_name) == IF band_name \in {"B11", "B12"} THEN "R20m" ELSE "R10m"

\* the shape of the band's file: src.height, src.width
native_shape(product, band_name) ==
    IF resolution_map(band_name) = "R10m" THEN product.shape10 ELSE product.shape20

\* target_shape = (src.height * 2, src.width * 2) for B11 and B12; the
\* other bands are read as they are
loaded_shape(product, band_name) ==
    LET shp == native_shape(product, band_name)
    IN  IF band_name \in {"B11", "B12"} THEN <<shp[1] * 2, shp[2] * 2>> ELSE shp

BandShapes == {<<h, w>> : h \in 1..MaxBandDim, w \in 1..MaxBandDim}

Products ==
    {[shape10 |-> a, shape20 |-> b, available |-> v] :
        a \in BandShapes, b \in BandShapes,
        v \in SUBSET {required_bands[k] : k \in DOMAIN required_bands}}

(***************************************************************************)
(* Fusion (fusion.py).  A raster file is its grid shape, its affine        *)
(* transform (here the column of its origin), its bands (each the pixel    *)
(* values in row-major order) and the set of bands that were written.  A   *)
(* normalized value is the fraction num/den; 0/0 is not-a-number.          *)
(***************************************************************************)
MaxInputs == 2        \* most rasters stacked
FusionMaxBands == 2   \* most bands of one input raster
FusionMaxWidth == 2   \* widest input raster
MaxVal == 2           \* pixel values are 0..MaxVal

RasterFile(shape, transform, bands, written) ==
    [shape |-> shape, transform |-> transform, bands |-> bands, written |-> written]

NoFile == RasterFile(<<0, 0>>, 0, <<>>, {})

NumPixels(shape) == shape[1] * shape[2]

FusionShapes == {<<1, w>> : w \in 1..FusionMaxWidth}

FusionRasters ==
    UNION {
      {RasterFile(shp, t, b, 1..c) :
          t \in 0..1, b \in [1..c -> [1..NumPixels(shp) -> 0..MaxVal]]} :
      shp \in FusionShapes, c \in 1..FusionMaxBands}

\* the data GDAL puts in the band when the array written has another shape
\* than the dataset: the array stretched to the grid, nearest pixel
Resampled(layer, from_shape, to_shape) ==
    [k \in 1..NumPixels(to_shape) |->
        LET r == (k - 1) \div to_shape[2]
            c == (k - 1) % to_shape[2]
            rr == (r * from_shape[1]) \div to_shape[1]
            cc == (c * from_shape[2]) \div to_shape[2]
        IN  layer[rr * from_shape[2] + cc + 1]]

Zeros(n) == [k \in 1..n |-> 0]

RECURSIVE WriteLayers(_, _, _, _)
\* for idx, layer in enumerate(layers, start=1): dst.write(layer, idx), on
\* the file dst, from index idx on.  A layer of the dataset's shape is
\* stored as it is; for a layer of another shape dst.write either raises
\* ValueError or stores the stretched layer (on_mismatch).  The result is
\* the file and whether the loop ended normally.
WriteLayers(dst, layers, idx, on_mismatch) ==
    IF idx > Len(layers) THEN [file |-> dst, ok |-> TRUE]
    ELSE LET layer == layers[idx]
         IN  IF layer.shape = dst.shape
             THEN WriteLayers([dst EXCEPT !.bands[idx] = layer.data,
                                          !.written = @ \cup {idx}],
                              layers, idx + 1, on_mismatch)
             ELSE IF on_mismatch = "ValueError"
             THEN [file |-> dst, ok |-> FALSE]
             ELSE WriteLayers([dst EXCEPT
                                 !.bands[idx] = Resampled(layer.data, layer.shape, dst.shape),
                                 !.written = @ \cup {idx}],
                              layers, idx + 1, on_mismatch)

\* stack_rasters(input_files, output_file)
stack_rasters(files, on_mismatch) ==
    LET meta == [shape |-> files[1].shape, transform |-> files[1].transform,
                 count |-> Len(files)]
        layers == [k \in DOMAIN files |->
                     [shape |-> files[k].shape, data |-> files[k].bands[1]]]
        dst == RasterFile(meta.shape, meta.transform,
                          [k \in 1..meta.count |-> Zeros(NumPixels(meta.shape))], {})
    IN  WriteLayers(dst, layers, 1, on_mismatch)

Frac(num, den) == [num |-> num, den |-> den]

\* (data - data_min) / (data_max - data_min), elementwise; x/0 for x = 0 is
\* not-a-number (numpy warns and goes on)
normalized_data(data) ==
    LET vals == {data[k] : k \in DOMAIN data}
        data_min == SetMin(vals)
        data_max == SetMax(vals)
    IN  [k \in DOMAIN data |-> Frac(data[k] - data_min, data_max - data_min)]

\* normalize_raster(input_file, output_file): band 1 is read, normalized
\* and written to band 1 of a file with the input's profile
normalize_raster(src) ==
    LET data == src.bands[1]
    IN  RasterFile(src.shape, src.transform,
                   [k \in DOMAIN src.bands |->
                       IF k = 1 THEN normalized_data(data)
                       ELSE [p \in 1..NumPixels(src.shape) |-> Frac(0, 1)]],
                   {1})

(***************************************************************************)
(* Reprojection (fusion.py, reproject_and_resample).  A georeferenced      *)
(* raster is its reference system, its affine transform and its pixel      *)
(* counts.  The transform of a north-up raster is Affine(a, 0, c, 0, e, f):*)
(* a and e are the pixel width and the negated pixel height, fractions of  *)
(* a map unit, and (c, f) is the upper left corner.                        *)
(***************************************************************************)
Affine(a, c, e, f) == [a |-> a, c |-> c, e |-> e, f |-> f]

\* transform * Affine(sx, 0, 0, 0, sy, 0), sx and sy fractions: the product
\* of the matrices keeps the corner and multiplies the pixel size
scale_transform(transform, sx, sy) ==
    Affine(Frac(transform.a.num * sx.num, transform.a.den * sx.den), transform.c,
           Frac(transform.e.num * sy.num, transform.e.den * sy.den), transform.f)

GeoRaster(crs, transform, width, height) ==
    [crs |-> crs, transform |-> transform, width |-> width, height |-> height]

NoRaster == GeoRaster("EPSG:4326", Affine(Frac(1, 1), 0, Frac(-1, 1), 0), 0, 0)

\* src.bounds: rasterio.transform.array_bounds(height, width, transform),
\* for a source whose pixel size is a whole number of map units
raster_bounds(src) ==
    Bounds(src.transform.c,
           src.transform.f + src.height * (src.transform.e.num \div src.transform.e.den),
           src.transform.c + src.width * (src.transform.a.num \div src.transform.a.den),
           src.transform.f)

\* src.res: (a, -e)
raster_res(src) ==
    << Frac(src.transform.a.num, src.transform.a.den),
       Frac(-src.transform.e.num, src.transform.e.den) >>

\* calculate_default_transform(src_crs, dst_crs, width, height, left, bottom,
\* right, top): the grid over the bounds as seen in dst_crs.  Between
\* reference systems that differ by a shift the bounds keep their size and
\* the grid keeps the pixel counts; its pixel size is extent / count.
calculate_default_transform(src_crs, dst_crs, width, height, b) ==
    LET out == transform_bounds(src_crs, dst_crs, b)
    IN  [transform |-> Affine(Frac(out.right - out.left, width), out.left,
                              Frac(out.bottom - out.top, height), out.top),
         width |-> width,
         height |-> height]

\* reproject_and_resample(input_path, output_path, target_crs,
\* target_resolution): the profile of the file it writes
reproject_and_resample(src, crs, resolution) ==
    LET default == calculate_default_transform(src.crs, crs, src.width, src.height,
                                               raster_bounds(src))
        res == raster_res(src)
        transform == scale_transform(default.transform,
                                     Frac(resolution * res[1].den, res[1].num),
                                     Frac(resolution * res[2].den, res[2].num))
    IN  GeoRaster(crs, transform, default.width, default.height)

VARIABLES
    \* ---- overlap crop
    s1,               \* the Sentinel-1 raster: [crs, bounds]
    s2,               \* the Sentinel-2 raster
    ov_pc,            \* "start", "crop_s1", "crop_s2", "returned"
    overlap_area,     \* the intersection in WGS84, once computed
    cropped,          \* the cropped files written
    ov_log            \* what crop_to_overlap reported, in order

overlapVars == <<s1, s2, ov_pc, overlap_area, cropped, ov_log>>

VARIABLES
    \* ---- band loader
    product,          \* the .SAFE product
    bands,            \* self.bands: band name -> shape of the loaded grid
    meta,             \* self.meta: the shape of B04's file, <<>> before
    lb_i,             \* the index in required_bands of the band to load next
    lb_status         \* "loading", "loaded", "failed"

bandVars == <<product, bands, meta, lb_i, lb_status>>

VARIABLES
    \* ---- fusion
    input_files,      \* the resampled rasters handed to stack_rasters
    fu_pc,            \* "start", "stacked", "stack_failed", "normalized"
    stacked,          \* fused_stack.tif
    normalized        \* fused_stack_normalized.tif

fusionVars == <<input_files, fu_pc, stacked, normalized>>


VARIABLES
    input,            \* the image the script is run on
    crop_size,        \* tile_size / crop_size
    is_glcm,          \* crop_and_save's is_glcm
    filename,         \* the input file's name
    batch_timestamp,  \* timestamp / batch_timestamp of the run
    pc,               \* "start" or "done"
    tiler,            \* the script that ran
    calls,            \* crop_tiff_images: the tiling calls it made
    tiles,            \* the files written, in order
    total_crops,      \* the crop count the script reports
    processed_files   \* the file count the script reports

tilingVars == <<input, crop_size, is_glcm, filename, batch_timestamp, pc, tiler,
                calls, tiles, total_crops, processed_files>>

VARIABLES
    \* ---- clip by feature
    clip_src,         \* the raster opened by clip_with_shapefile
    gdf,              \* the shapefile: its columns and its features, in order
    clip_i,           \* the position of the loop over gdf.iterrows()
    clip_pc,          \* "loop" or "returned"
    clip_written,     \* the writes done, in order: [idx, name, window]
    clip_files,       \* the files in output_dir
    clip_log          \* what was printed per feature, in order

clipVars == <<clip_src, gdf, clip_i, clip_pc, clip_written, clip_files, clip_log>>

VARIABLES
    \* ---- NDVI
    band_values,      \* self.bands of B04 and B08: the pixel values, as floats
    ndvi_pc,          \* "start" or "calculated"
    ndvi_index        \* self.indices['NDVI'], <<>> before it is calculated

ndviVars == <<band_values, ndvi_pc, ndvi_index>>

VARIABLES
    \* ---- process_sentinel_image
    indices,          \* self.indices: index name -> shape of its grid
    outputs,          \* the files written in output_dir
    ps_pc             \* "try", "save", "rgb", "plot", "completed", "error"

processVars == <<indices, outputs, ps_pc>>

VARIABLES
    \* ---- batch loops of the tiling scripts
    script,               \* "crop_tiff_images" or "process_tiff_files"
    listing,              \* os.listdir(input_folder): the files, in order
    file_i,               \* the position of the loop over the listing
    batch_pc,             \* "loop", "summary", "aborted"
    disk,                 \* the tile files under output_folder
    run_total_crops,      \* total_crops
    run_processed_files,  \* processed_files / total_files
    batch_log             \* what was printed per file, in order

batchVars == <<script, listing, file_i, batch_pc, disk, run_total_crops,
               run_processed_files, batch_log>>

VARIABLES
    \* ---- reprojection
    rp_src,               \* the raster opened by reproject_and_resample
    target_crs,           \* its target_crs argument
    target_resolution,    \* its target_resolution argument
    rp_pc,                \* "start" or "done"
    rp_dst                \* the raster written to output_path

reprojectVars == <<rp_src, target_crs, target_resolution, rp_pc, rp_dst>>

vars == <<tilingVars, overlapVars, bandVars, processVars, fusionVars, clipVars, ndviVars,
          batchVars, reprojectVars>>

\* the variables of the other scripts, which a script leaves alone
otherThanTiling == <<overlapVars, bandVars, fusionVars, clipVars, ndviVars, processVars, batchVars, reprojectVars>>
otherThanOverlap == <<tilingVars, bandVars, fusionVars, clipVars, ndviVars, processVars, batchVars, reprojectVars>>
otherThanBands == <<tilingVars, overlapVars, fusionVars, clipVars, ndviVars, batchVars, reprojectVars>>
otherThanFusion == <<tilingVars, overlapVars, bandVars, clipVars, ndviVars, processVars, batchVars, reprojectVars>>
otherThanClip == <<tilingVars, overlapVars, bandVars, fusionVars, ndviVars, processVars, batchVars, reprojectVars>>
otherThanBatch == <<tilingVars, overlapVars, bandVars, processVars, fusionVars, clipVars,
                    ndviVars, reprojectVars>>
otherThanReproject == <<tilingVars, overlapVars, bandVars, processVars, fusionVars,
                        clipVars, ndviVars, batchVars>>
otherThanNdvi == <<tilingVars, overlapVars, bandVars, fusionVars, clipVars, processVars, batchVars, reprojectVars>>

(***************************************************************************)
(* The idle values of each script's variables, for the specifications of   *)
(* the other scripts.                                                      *)
(***************************************************************************)
TilingIdle ==
    /\ input = Input("none", FALSE, <<>>)
    /\ crop_size = DefaultCropSize
    /\ is_glcm = FALSE
    /\ filename = <<>>
    /\ batch_timestamp = ""
    /\ pc = "idle"
    /\ tiler = "none"
    /\ calls = <<>>
    /\ tiles = <<>>
    /\ total_crops = 0
    /\ processed_files = 0

OverlapIdle ==
    /\ s1 = [crs |-> "EPSG:4326", bounds |-> Bounds(0, 0, 0, 0)]
    /\ s2 = [crs |-> "EPSG:4326", bounds |-> Bounds(0, 0, 0, 0)]
    /\ ov_pc = "idle"
    /\ overlap_area = Geom("None", <<>>)
    /\ cropped = {}
    /\ ov_log = <<>>

BandsIdle ==
    /\ product = [shape10 |-> <<0, 0>>, shape20 |-> <<0, 0>>, available |-> {}]
    /\ bands = <<>>
    /\ meta = <<>>
    /\ lb_i = 0
    /\ lb_status = "idle"

FusionIdle ==
    /\ input_files = <<>>
    /\ fu_pc = "idle"
    /\ stacked = NoFile
    /\ normalized = NoFile

BatchIdle ==
    /\ script = "none"
    /\ listing = <<>>
    /\ file_i = 0
    /\ batch_pc = "idle"
    /\ disk = {}
    /\ run_total_crops = 0
    /\ run_processed_files = 0
    /\ batch_log = <<>>

ProcessIdle ==
    /\ indices = <<>>
    /\ outputs = {}
    /\ ps_pc = "idle"

NdviIdle ==
    /\ band_values = <<>>
    /\ ndvi_pc = "idle"
    /\ ndvi_index = <<>>

ReprojectIdle ==
    /\ rp_src = NoRaster
    /\ target_crs = "EPSG:4326"
    /\ target_resolution = 1
    /\ rp_pc = "idle"
    /\ rp_dst = NoRaster

ClipIdle ==
    /\ clip_src = [original_filename |-> "", timestamp |-> "",
                    crs |-> "EPSG:4326", bounds |-> Bounds(0, 0, 0, 0)]
    /\ gdf = [has_name |-> FALSE, features |-> <<>>]
    /\ clip_i = 0
    /\ clip_pc = "idle"
    /\ clip_written = <<>>
    /\ clip_files = {}
    /\ clip_log = <<>>

(***************************************************************************)
(* The tiling scripts.                                                     *)
(***************************************************************************)

TilingInit ==
    /\ \/ input \in SmallInputs /\ crop_size \in 1..MaxTile
       \/ input \in ScenarioInputs /\ crop_size = DefaultCropSize
    /\ is_glcm \in (IF input.lib = "rasterio" /\ input.exists THEN BOOLEAN ELSE {FALSE})
    /\ filename \in FileNames
    /\ batch_timestamp \in BatchTimestamps
    /\ pc = "start"
    /\ tiler = "none"
    /\ calls = <<>>
    /\ tiles = <<>>
    /\ total_crops = 0
    /\ processed_files = 0

\* sent-1_croper.py: crop_and_save on one raster
RunCropAndSave ==
    /\ pc = "start"
    /\ input.lib = "rasterio"
    /\ tiles' = crop_and_save(filename, input.exists, input.shape, crop_size,
                              is_glcm, batch_timestamp)
    /\ tiler' = "crop_and_save"
    /\ pc' = "done"
    /\ UNCHANGED <<input, crop_size, is_glcm, filename, batch_timestamp, calls,
                   total_crops, processed_files>>
    /\ UNCHANGED otherThanTiling

\* tif_crop.py: process_tiff_files on a folder holding one readable image
RunProcessTiffFiles ==
    /\ pc = "start"
    /\ input.lib = "tifffile"
    /\ LET crops == process_tiff_crops(filename, input.shape, crop_size)
       IN  /\ tiles' = crops
           /\ total_crops' = Len(crops)
           /\ processed_files' = IF Len(input.shape) < 2 THEN 0 ELSE 1
    /\ tiler' = "process_tiff_files"
    /\ pc' = "done"
    /\ UNCHANGED <<input, crop_size, is_glcm, filename, batch_timestamp, calls>>
    /\ UNCHANGED otherThanTiling

\* tif_cropper.py: crop_tiff_images on a folder holding one readable image
RunCropTiffImages ==
    /\ pc = "start"
    /\ input.lib = "tifffile"
    /\ LET made == crop_tiff_dispatch(input.shape, filename, batch_timestamp, crop_size)
           crops == Flatten([k \in DOMAIN made |-> made[k].crops])
       IN  /\ calls' = made
           /\ tiles' = crops
           /\ total_crops' = Len(crops)
           /\ processed_files' = IF supported_rank(input.shape) THEN 1 ELSE 0
    /\ tiler' = "crop_tiff_images"
    /\ pc' = "done"
    /\ UNCHANGED <<input, crop_size, is_glcm, filename, batch_timestamp>>
    /\ UNCHANGED otherThanTiling

TilingNext == RunCropAndSave \/ RunProcessTiffFiles \/ RunCropTiffImages

InitTiling == TilingInit /\ OverlapIdle /\ BandsIdle /\ FusionIdle /\ ClipIdle /\ NdviIdle /\ ProcessIdle /\ BatchIdle /\ ReprojectIdle

SpecTiling == InitTiling /\ [][TilingNext]_vars

(***************************************************************************)
(* The overlap crop: crop_to_overlap(s1_path, s2_path, ...).               *)
(***************************************************************************)
OverlapInit ==
    /\ s1 \in Rasters
    /\ s2 \in Rasters
    /\ ov_pc = "start"
    /\ overlap_area = Geom("None", <<>>)
    /\ cropped = {}
    /\ ov_log = <<>>

Report(who, what) == [who |-> who, what |-> what]

\* get_bounds of both rasters, the intersection in WGS84 and the is_empty
\* test: crop_to_overlap up to the definition of crop_and_save
ComputeOverlap ==
    /\ ov_pc = "start"
    /\ LET s1_bounds == get_bounds(s1).wgs84
           s2_bounds == get_bounds(s2).wgs84
           area == intersection(s1_bounds, s2_bounds)
       IN  /\ overlap_area' = area
           /\ IF is_empty(area)
              THEN /\ ov_log' = Append(ov_log, Report("crop_to_overlap", "no_overlap"))
                   /\ ov_pc' = "returned"
              ELSE /\ ov_log' = ov_log
                   /\ ov_pc' = "crop_s1"
    /\ UNCHANGED <<s1, s2, cropped>>
    /\ UNCHANGED otherThanOverlap

\* the inner crop_and_save(input_path, output_folder, image_type) on one
\* raster: what it reports and the file it writes.  "raised" is an exception
\* that leaves crop_and_save: when transform_geom raises ValueError, the
\* handler of ValueError reads geom, which was never assigned.
overlap_crop_and_save(raster, image_type, area, fault, mask_result) ==
    LET geom == transform_geom("EPSG:4326", raster.crs, area)
    IN  IF fault = "transform_ValueError"
        THEN [status |-> "raised", files |-> {}]
        ELSE IF fault = "transform_error"
        THEN [status |-> "unexpected_error", files |-> {}]
        ELSE IF mask_result = "ValueError"
        THEN [status |-> "crop_error", files |-> {}]
        ELSE IF fault = "write_error"
        THEN [status |-> "unexpected_error", files |-> {}]
        ELSE [status |-> "saved",
              files |-> {[image_type |-> image_type,
                          geom |-> geom,
                          geom_crs |-> raster.crs,
                          window |-> mask_window(raster, geom)]}]

CropOne(raster, image_type, next_pc) ==
    \E fault \in CropFaults :
      \E mask_result \in mask_outcomes(raster, transform_geom("EPSG:4326", raster.crs, overlap_area)) :
        LET r == overlap_crop_and_save(raster, image_type, overlap_area, fault, mask_result)
        IN  /\ cropped' = cropped \cup r.files
            /\ IF r.status = "raised"
               THEN /\ ov_log' = ov_log \o << Report(image_type, "raised"),
                                             Report("crop_to_overlap", "error") >>
                    /\ ov_pc' = "returned"
               ELSE /\ ov_log' = Append(ov_log, Report(image_type, r.status))
                    /\ ov_pc' = next_pc

\* crop_and_save(s1_path, output_folder_s1, "Sentinel-1")
CropS1 ==
    /\ ov_pc = "crop_s1"
    /\ CropOne(s1, "Sentinel-1", "crop_s2")
    /\ UNCHANGED <<s1, s2, overlap_area>>
    /\ UNCHANGED otherThanOverlap

\* crop_and_save(s2_path, output_folder_s2, "Sentinel-2")
CropS2 ==
    /\ ov_pc = "crop_s2"
    /\ CropOne(s2, "Sentinel-2", "returned")
    /\ UNCHANGED <<s1, s2, overlap_area>>
    /\ UNCHANGED otherThanOverlap

OverlapNext == ComputeOverlap \/ CropS1 \/ CropS2

InitOverlap == OverlapInit /\ TilingIdle /\ BandsIdle /\ FusionIdle /\ ClipIdle /\ NdviIdle /\ ProcessIdle /\ BatchIdle /\ ReprojectIdle

SpecOverlap == InitOverlap /\ [][OverlapNext]_vars

(***************************************************************************)
(* The band loader: Sentinel2Processor.load_bands.                         *)
(***************************************************************************)
has_band_file_always(product_, band_name) == TRUE

\* find_band_path: whether IMG_DATA/<resolution> holds a file of the band
has_band_file(product_, band_name) == band_name \in product_.available

BandsInit ==
    /\ product \in Products
    /\ bands = <<>>
    /\ meta = <<>>
    /\ lb_i = 1
    /\ lb_status = "loading"

\* bands as a set of <<name, shape>> would lose the mapping: self.bands is
\* kept as a function from the names loaded so far
SetBand(bs, band_name, shp) ==
    [b \in DOMAIN bs \cup {band_name} |-> IF b = band_name THEN shp ELSE bs[b]]

\* one pass of the loop of load_bands: the band is found, read (B11 and B12
\* at twice their size) and stored, and B04's metadata is kept
LoadBand ==
    /\ lb_status = "loading"
    /\ has_band_file(product, required_bands[lb_i])
    /\ LET band_name == required_bands[lb_i]
       IN  /\ bands' = SetBand(bands, band_name, loaded_shape(product, band_name))
           /\ meta' = IF band_name = "B04" THEN native_shape(product, band_name) ELSE meta
    /\ lb_i' = lb_i + 1
    /\ lb_status' = IF lb_i = Len(required_bands) THEN "loaded" ELSE "loading"
    /\ UNCHANGED product
    /\ UNCHANGED processVars
    /\ UNCHANGED otherThanBands

\* find_band_path raises FileNotFoundError for a band without a file
LoadBandFails ==
    /\ lb_status = "loading"
    /\ ~has_band_file(product, required_bands[lb_i])
    /\ lb_status' = "failed"
    /\ ps_pc' = "error"
    /\ UNCHANGED <<product, bands, meta, lb_i>>
    /\ UNCHANGED <<indices, outputs>>
    /\ UNCHANGED otherThanBands

\* numpy's shape of a binary operation on two grids: None when the shapes
\* cannot be broadcast (ValueError)
broadcast(a, b) ==
    IF \A d \in 1..2 : a[d] = b[d] \/ a[d] = 1 \/ b[d] = 1
    THEN <<Max(a[1], b[1]), Max(a[2], b[2])>>
    ELSE "None"

\* calculate_ndvi, calculate_savi, calculate_swir: each index is stored
\* once it is calculated; the first that fails ends the try block
CalculateIndices ==
    /\ lb_status = "loaded"
    /\ ps_pc = "try"
    /\ LET ndvi == broadcast(bands["B08"], bands["B04"])
           savi == broadcast(bands["B08"], bands["B04"])
           swir == broadcast(bands["B08"], bands["B11"])
       IN  IF ndvi = "None"
           THEN indices' = indices /\ ps_pc' = "error"
           ELSE IF savi = "None"
           THEN indices' = SetBand(indices, "NDVI", ndvi) /\ ps_pc' = "error"
           ELSE IF swir = "None"
           THEN /\ indices' = SetBand(SetBand(indices, "NDVI", ndvi), "SAVI", savi)
                /\ ps_pc' = "error"
           ELSE /\ indices' = SetBand(SetBand(SetBand(indices, "NDVI", ndvi),
                                               "SAVI", savi), "SWIR", swir)
                /\ ps_pc' = "save"
    /\ UNCHANGED outputs
    /\ UNCHANGED bandVars
    /\ UNCHANGED otherThanBands

\* the three save_index calls: each writes its index into a file with
\* B04's metadata; for an index of another shape than B04's the write
\* either raises or stores the stretched grid
SaveIndices ==
    /\ ps_pc = "save"
    /\ \E on_mismatch \in {"ValueError", "resampled"} :
         LET fits(name) == indices[name] = meta \/ on_mismatch = "resampled"
         IN  IF ~fits("NDVI")
             THEN outputs' = outputs /\ ps_pc' = "error"
             ELSE IF ~fits("SAVI")
             THEN outputs' = outputs \cup {"ndvi.tif"} /\ ps_pc' = "error"
             ELSE IF ~fits("SWIR")
             THEN outputs' = outputs \cup {"ndvi.tif", "savi.tif"} /\ ps_pc' = "error"
             ELSE /\ outputs' = outputs \cup {"ndvi.tif", "savi.tif", "swir.tif"}
                  /\ ps_pc' = "rgb"
    /\ UNCHANGED indices
    /\ UNCHANGED bandVars
    /\ UNCHANGED otherThanBands

\* create_rgb_image: np.stack of B04, B03, B02 needs equal shapes
CreateRgbImage ==
    /\ ps_pc = "rgb"
    /\ IF bands["B04"] = bands["B03"] /\ bands["B03"] = bands["B02"]
       THEN outputs' = outputs \cup {"rgb_composite.tif"} /\ ps_pc' = "plot"
       ELSE outputs' = outputs /\ ps_pc' = "error"
    /\ UNCHANGED indices
    /\ UNCHANGED bandVars
    /\ UNCHANGED otherThanBands

\* the three plot_index calls and "Processing completed successfully."
PlotIndices ==
    /\ ps_pc = "plot"
    /\ ps_pc' = IF {"NDVI", "SAVI", "SWIR"} \subseteq DOMAIN indices
                THEN "completed" ELSE "error"
    /\ UNCHANGED <<indices, outputs>>
    /\ UNCHANGED bandVars
    /\ UNCHANGED otherThanBands

BandsNext ==
    \/ LoadBand
    \/ LoadBandFails
    \/ CalculateIndices
    \/ SaveIndices
    \/ CreateRgbImage
    \/ PlotIndices

\* processor = Sentinel2Processor(safe_dir), at the start of the try block
ProcessInit ==
    /\ indices = <<>>
    /\ outputs = {}
    /\ ps_pc = "try"

InitBands == BandsInit /\ ProcessInit /\ TilingIdle /\ OverlapIdle /\ FusionIdle /\ ClipIdle /\ NdviIdle /\ BatchIdle /\ ReprojectIdle

SpecBands == InitBands /\ [][BandsNext]_vars

(***************************************************************************)
(* Fusion: main() of fusion.py from stack_rasters on.                      *)
(***************************************************************************)
InputLists == UNION {[1..n -> FusionRasters] : n \in 1..MaxInputs}

FusionInit ==
    /\ input_files \in InputLists
    /\ fu_pc = "start"
    /\ stacked = NoFile
    /\ normalized = NoFile

\* stack_rasters(resampled_files, stacked_output)
StackRasters ==
    /\ fu_pc = "start"
    /\ \E on_mismatch \in {"ValueError", "resampled"} :
         LET r == stack_rasters(input_files, on_mismatch)
         IN  /\ stacked' = r.file
             /\ fu_pc' = IF r.ok THEN "stacked" ELSE "stack_failed"
    /\ UNCHANGED <<input_files, normalized>>
    /\ UNCHANGED otherThanFusion

\* normalize_raster(stacked_output, normalized_output)
NormalizeRaster ==
    /\ fu_pc = "stacked"
    /\ normalized' = normalize_raster(stacked)
    /\ fu_pc' = "normalized"
    /\ UNCHANGED <<input_files, stacked>>
    /\ UNCHANGED otherThanFusion

FusionNext == StackRasters \/ NormalizeRaster

InitFusion == FusionInit /\ TilingIdle /\ OverlapIdle /\ BandsIdle /\ ClipIdle /\ NdviIdle /\ ProcessIdle /\ BatchIdle /\ ReprojectIdle

SpecFusion == InitFusion /\ [][FusionNext]_vars

(***************************************************************************)
(* Clip by feature: clip_with_shapefile(tif_path, shapefile_path,          *)
(* output_dir) of "clip sentinel tif.py".  The features' geometries are    *)
(* used with the coordinates they have in the shapefile: the script does   *)
(* not reproject them.                                                     *)
(***************************************************************************)
MaxFeatures == 3     \* most features in the shapefile
MaxClipCoord == 3    \* the features' corners lie in 0..MaxClipCoord

\* a feature without a geometry
NoGeometry == Geom("None", <<>>)

ClipIntervals == {lr \in (0..MaxClipCoord) \X (0..MaxClipCoord) : lr[1] < lr[2]}

ClipPolygons == {box(lr[1], 0, lr[2], 1) : lr \in ClipIntervals} \cup {NoGeometry}

\* the shapefile has no column 'name', or one whose values are all
\* different, or one whose values are all the same
NameColumns == {"absent", "distinct", "same"}

FeatureName(column, k) ==
    CASE column = "absent" -> ""
      [] column = "distinct" -> "rg" \o ToString(k)
      [] column = "same" -> "rg"

\* the table read from the shapefile: its features in order, each with the
\* value of the column 'name' (if there is one) and its geometry
Shapefile(column, geometries) ==
    [has_name |-> column # "absent",
     features |-> [k \in DOMAIN geometries |->
                     [name |-> FeatureName(column, k), geometry |-> geometries[k]]]]

\* the raster clipped: the unit square at the origin, so that features can
\* cover it, reach into it, touch it or lie apart from it
ClipSources ==
    {[original_filename |-> "s2_20210615", timestamp |-> "20210615",
      crs |-> "EPSG:4326", bounds |-> Bounds(0, 0, 1, 1)]}

\* glacier['name'] if 'name' in glacier else f"glacier_{idx}"
glacier_name_of(table, idx, glacier) ==
    IF table.has_name THEN glacier.name ELSE "glacier_" \o ToString(idx)

\* f"{original_filename}_{glacier_name}_{timestamp}.tif"
output_filename_of(original_filename, glacier_name, timestamp) ==
    original_filename \o "_" \o glacier_name \o "_" \o timestamp \o ".tif"

\* mask(src, [glacier.geometry], crop=True) in the try block: the outcomes
\* of mask, and an exception of another kind for a missing geometry
clip_mask(raster, geom) ==
    IF geom = NoGeometry THEN {"Exception"} ELSE mask_outcomes(raster, geom)

ClipInit ==
    /\ clip_src \in ClipSources
    /\ \E n \in 0..MaxFeatures, column \in NameColumns :
         \E geometries \in [1..n -> ClipPolygons] :
           gdf = Shapefile(column, geometries)
    /\ clip_i = 1
    /\ clip_pc = "loop"
    /\ clip_written = <<>>
    /\ clip_files = {}
    /\ clip_log = <<>>

\* one pass of "for idx, glacier in gdf.iterrows()": the try block and its
\* handler, which both go on to the next feature
ClipFeature ==
    /\ clip_pc = "loop"
    /\ clip_i <= Len(gdf.features)
    /\ LET idx == clip_i - 1
           glacier == gdf.features[clip_i]
           glacier_name == glacier_name_of(gdf, idx, glacier)
           geom == glacier.geometry
       IN  \E outcome \in clip_mask(clip_src, geom) :
             IF outcome = "cropped"
             THEN LET file == [name |-> output_filename_of(clip_src.original_filename,
                                                           glacier_name, clip_src.timestamp),
                               idx |-> idx,
                               window |-> mask_window(clip_src, geom)]
                  IN  /\ clip_written' = Append(clip_written, file)
                      /\ clip_files' = {f \in clip_files : f.name # file.name} \cup {file}
                      /\ clip_log' = Append(clip_log, Report(glacier_name, "clipped"))
             ELSE /\ clip_log' = Append(clip_log, Report(glacier_name, "error"))
                  /\ UNCHANGED <<clip_written, clip_files>>
    /\ clip_i' = clip_i + 1
    /\ UNCHANGED <<clip_src, gdf, clip_pc>>
    /\ UNCHANGED otherThanClip

\* the loop is exhausted and clip_with_shapefile returns
ClipReturn ==
    /\ clip_pc = "loop"
    /\ clip_i > Len(gdf.features)
    /\ clip_pc' = "returned"
    /\ UNCHANGED <<clip_src, gdf, clip_i, clip_written, clip_files, clip_log>>
    /\ UNCHANGED otherThanClip

ClipNext == ClipFeature \/ ClipReturn

InitClip == ClipInit /\ TilingIdle /\ OverlapIdle /\ BandsIdle /\ FusionIdle /\ NdviIdle /\ ProcessIdle /\ BatchIdle /\ ReprojectIdle

SpecClip == InitClip /\ [][ClipNext]_vars

(***************************************************************************)
(* NDVI: Sentinel2Processor.calculate_ndvi.  B04 and B08 are loaded with   *)
(* astype(float), so the arithmetic is that of floats; a quotient is kept  *)
(* as the fraction num/den with both in units of 1e-6.                     *)
(***************************************************************************)
InverseEpsilon == 1000000   \* 1 / 1e-6
MaxPixels == 2              \* most pixels of a band

\* the reflectance values a pixel may hold
NdviValues == {0, 1, 100, 200, 1000}

\* nir + red, in units of 1e-6
ndvi_denominator_no_epsilon(nir, red) == (nir + red) * InverseEpsilon

\* nir + red + 1e-6, in units of 1e-6
ndvi_denominator(nir, red) == (nir + red) * InverseEpsilon + 1

\* (nir - red) / (nir + red + 1e-6), elementwise
calculate_ndvi(bs) ==
    LET red == bs["B04"]
        nir == bs["B08"]
    IN  [p \in DOMAIN red |->
           Frac((nir[p] - red[p]) * InverseEpsilon, ndvi_denominator(nir[p], red[p]))]

NdviInit ==
    /\ \E n \in 1..MaxPixels :
         \E red \in [1..n -> NdviValues], nir \in [1..n -> NdviValues] :
           band_values = [b \in {"B04", "B08"} |-> IF b = "B04" THEN red ELSE nir]
    /\ ndvi_pc = "start"
    /\ ndvi_index = <<>>

\* processor.calculate_ndvi()
CalculateNdvi ==
    /\ ndvi_pc = "start"
    /\ ndvi_index' = calculate_ndvi(band_values)
    /\ ndvi_pc' = "calculated"
    /\ UNCHANGED band_values
    /\ UNCHANGED otherThanNdvi

NdviNext == CalculateNdvi

InitNdvi == NdviInit /\ TilingIdle /\ OverlapIdle /\ BandsIdle /\ FusionIdle /\ ClipIdle /\ ProcessIdle /\ BatchIdle /\ ReprojectIdle

SpecNdvi == InitNdvi /\ [][NdviNext]_vars

(***************************************************************************)
(* The batch loops of the tiling scripts: crop_tiff_images (tif_cropper.py)*)
(* and process_tiff_files (tif_crop.py) over the files of the input        *)
(* folder.  A file of the listing has a name, the shape of the array read  *)
(* from it and what goes wrong while it is handled.                        *)
(***************************************************************************)
MaxFiles == 2        \* most files in the input folder
MaxBatchDim == 2     \* most pages, and largest width, of a file's array
BatchCropSize == 1   \* crop_size of the run

BatchNames ==
    { <<"a", ".", "t", "i", "f">>,
      <<"a", ".", "t", "i", "f", "f">>,
      <<"a", ".", "t", "x", "t">> }

BatchShapes ==
    UNION {{<<d>>, <<1, d>>, <<d, 1, 1>>, <<1, d, 3>>, <<d, 1, 1, 3>>} : d \in 1..MaxBatchDim}

\* what can go wrong with one file in crop_tiff_images: its old output
\* folder cannot be removed, its output folder cannot be created, it cannot
\* be read, or one of its tiles cannot be written
CropperFaults == {"none", "rmtree_error", "makedirs_error", "imread_error", "imwrite_error"}

\* what can go wrong with one file in process_tiff_files: it cannot be read
\* as an ImageJ TIFF and then (a) cannot be converted, (b) is converted and
\* read, or (c) is converted and cannot be read; or one of its tiles cannot
\* be written
TifCropFaults == {"none", "convert_fails", "converted", "converted_imread_error",
                  "imwrite_error"}

\* s.endswith(suffix), on sequences of characters
endswith(s, suffix) ==
    /\ Len(s) >= Len(suffix)
    /\ SubSeq(s, Len(s) - Len(suffix) + 1, Len(s)) = suffix

\* filename.lower().endswith(('.tif', '.tiff')); the names are lower case
is_tiff_name(name) ==
    \/ endswith(name, <<".", "t", "i", "f">>)
    \/ endswith(name, <<".", "t", "i", "f", "f">>)

\* filename.startswith('._')
is_hidden_name(name) == Len(name) >= 2 /\ SubSeq(name, 1, 2) = <<".", "_">>

InputFile(name, shape, fault) == [name |-> name, shape |-> shape, fault |-> fault]

\* a tile file on disk: its folder under output_folder, its name and the
\* position in the listing of the input file it was cut from
DiskFile(folder, tile, src) == [folder |-> folder, name |-> tile.name, src |-> src]

\* tifffile.imwrite of the tiles, in order: a file of the same path is
\* replaced
imwrite_all(files, folder, written, src) ==
    {f \in files : ~(f.folder = folder /\ \E k \in DOMAIN written : written[k].name = f.name)}
      \cup {DiskFile(folder, written[k], src) : k \in DOMAIN written}

\* shutil.rmtree(folder_path)
rmtree(files, folder) == {f \in files : f.folder # folder}

RECURSIVE SumCrops(_)
SumCrops(made) ==
    IF made = <<>> THEN 0 ELSE Len(Head(made).crops) + SumCrops(Tail(made))

\* the number of crops of the calls that returned before the write number
\* k of the file failed: what "total_crops += crops" has added by then
crops_counted_before(made, k) ==
    LET done == {n \in 0..Len(made) : SumCrops(SubSeq(made, 1, n)) < k}
    IN  SumCrops(SubSeq(made, 1, SetMax(done)))

BatchInit ==
    /\ script \in {"crop_tiff_images", "process_tiff_files"}
    /\ \E n \in 0..MaxFiles :
         \E names \in [1..n -> BatchNames], shapes \in [1..n -> BatchShapes] :
           \E faults \in [1..n -> IF script = "crop_tiff_images"
                                    THEN CropperFaults ELSE TifCropFaults] :
             /\ \A a, b \in 1..n : a # b => names[a] # names[b]
             /\ \A a \in 1..n : ~is_tiff_name(names[a]) =>
                                    shapes[a] = <<1>> /\ faults[a] = "none"
             /\ listing = [k \in 1..n |-> InputFile(names[k], shapes[k], faults[k])]
    /\ file_i = 1
    /\ batch_pc = "loop"
    /\ disk = {}
    /\ run_total_crops = 0
    /\ run_processed_files = 0
    /\ batch_log = <<>>

\* one pass of the loop of crop_tiff_images, lines 48-105: what it leaves
\* on disk, adds to the counters and prints, and whether an exception
\* leaves the function
CropTiffImagesFile ==
    /\ script = "crop_tiff_images"
    /\ batch_pc = "loop"
    /\ file_i <= Len(listing)
    /\ LET file == listing[file_i]
           file_output_folder == Join(safe_name(splitext_root(file.name)))
           removed == IF file.fault = "rmtree_error" THEN disk
                      ELSE rmtree(disk, file_output_folder)
           made == crop_tiff_dispatch(file.shape, file.name, "20250102_121037",
                                      BatchCropSize)
           crops == Flatten([k \in DOMAIN made |-> made[k].crops])
       IN  IF is_hidden_name(file.name) \/ ~is_tiff_name(file.name)
           THEN /\ batch_log' = Append(batch_log, Report(file.name, "skipped"))
                /\ UNCHANGED <<disk, run_total_crops, run_processed_files, batch_pc>>
           ELSE IF file.fault \in {"rmtree_error", "makedirs_error"}
           THEN \* os.makedirs(file_output_folder) raises outside the try block
                /\ batch_pc' = "aborted"
                /\ disk' = removed
                /\ batch_log' = Append(batch_log, Report(file.name, "raised"))
                /\ UNCHANGED <<run_total_crops, run_processed_files>>
           ELSE IF file.fault = "imread_error"
           THEN /\ disk' = removed
                /\ batch_log' = Append(batch_log, Report(file.name, "error"))
                /\ UNCHANGED <<run_total_crops, run_processed_files, batch_pc>>
           ELSE IF ~supported_rank(file.shape)
           THEN /\ disk' = removed
                /\ batch_log' = Append(batch_log, Report(file.name, "unsupported"))
                /\ UNCHANGED <<run_total_crops, run_processed_files, batch_pc>>
           ELSE IF file.fault = "imwrite_error" /\ crops # <<>>
           THEN \E k \in DOMAIN crops :
                  /\ disk' = imwrite_all(removed, file_output_folder,
                                          SubSeq(crops, 1, k - 1), file_i)
                  /\ run_total_crops' = run_total_crops + crops_counted_before(made, k)
                  /\ batch_log' = Append(batch_log, Report(file.name, "error"))
                  /\ UNCHANGED <<run_processed_files, batch_pc>>
           ELSE /\ disk' = imwrite_all(removed, file_output_folder, crops, file_i)
                /\ run_total_crops' = run_total_crops + Len(crops)
                /\ run_processed_files' = run_processed_files + 1
                /\ batch_log' = Append(batch_log, Report(file.name, "completed"))
                /\ UNCHANGED batch_pc
    /\ file_i' = file_i + 1
    /\ UNCHANGED <<script, listing>>
    /\ UNCHANGED otherThanBatch

\* one pass of the loop of process_tiff_files, lines 24-65
ProcessTiffFilesFile ==
    /\ script = "process_tiff_files"
    /\ batch_pc = "loop"
    /\ file_i <= Len(listing)
    /\ LET file == listing[file_i]
           crops == process_tiff_crops(file.name, file.shape, BatchCropSize)
       IN  IF ~is_tiff_name(file.name)
           THEN /\ batch_log' = Append(batch_log, Report(file.name, "skipped"))
                /\ UNCHANGED <<disk, run_total_crops, run_processed_files, batch_pc>>
           ELSE IF file.fault = "convert_fails"
           THEN /\ batch_log' = Append(batch_log, Report(file.name, "error"))
                /\ UNCHANGED <<disk, run_total_crops, run_processed_files, batch_pc>>
           ELSE IF file.fault = "converted_imread_error"
           THEN \* tifffile.imread raises inside the except clause
                /\ batch_pc' = "aborted"
                /\ batch_log' = Append(batch_log, Report(file.name, "raised"))
                /\ UNCHANGED <<disk, run_total_crops, run_processed_files>>
           ELSE IF Len(file.shape) < 2
           THEN /\ batch_log' = Append(batch_log, Report(file.name, "invalid_shape"))
                /\ UNCHANGED <<disk, run_total_crops, run_processed_files, batch_pc>>
           ELSE IF file.fault = "imwrite_error"
           THEN \* tifffile.imwrite raises outside any try block
                \E k \in DOMAIN crops :
                  /\ disk' = imwrite_all(disk, "", SubSeq(crops, 1, k - 1), file_i)
                  /\ run_total_crops' = run_total_crops + (k - 1)
                  /\ batch_pc' = "aborted"
                  /\ batch_log' = Append(batch_log, Report(file.name, "raised"))
                  /\ UNCHANGED run_processed_files
           ELSE /\ disk' = imwrite_all(disk, "", crops, file_i)
                /\ run_total_crops' = run_total_crops + Len(crops)
                /\ run_processed_files' = run_processed_files + 1
                /\ batch_log' = Append(batch_log, Report(file.name, "completed"))
                /\ UNCHANGED batch_pc
    /\ file_i' = file_i + 1
    /\ UNCHANGED <<script, listing>>
    /\ UNCHANGED otherThanBatch

\* the listing is exhausted: the summary is printed
BatchSummary ==
    /\ batch_pc = "loop"
    /\ file_i > Len(listing)
    /\ batch_pc' = "summary"
    /\ batch_log' = Append(batch_log, Report("Summary",
                                              <<run_processed_files, run_total_crops>>))
    /\ UNCHANGED <<script, listing, file_i, disk, run_total_crops, run_processed_files>>
    /\ UNCHANGED otherThanBatch

BatchNext == CropTiffImagesFile \/ ProcessTiffFilesFile \/ BatchSummary

InitBatch ==
    BatchInit /\ TilingIdle /\ OverlapIdle /\ BandsIdle /\ ProcessIdle /\ FusionIdle
      /\ ClipIdle /\ NdviIdle /\ ReprojectIdle

SpecBatch == InitBatch /\ [][BatchNext]_vars

(***************************************************************************)
(* Reprojection: fusion.py, reproject_and_resample on one raster.          *)
(***************************************************************************)
MaxRasterDim == 3     \* most pixels along one axis of the source raster
MaxResolution == 3    \* largest pixel size and largest target_resolution
MaxOrigin == 1        \* the upper left corner has its coordinates in 0..MaxOrigin

\* reference systems that differ by a shift
ShiftCRSs == {"EPSG:4326", "LOCAL_OFFSET"}

ReprojectInit ==
    /\ \E crs \in ShiftCRSs, res \in 1..MaxResolution, c \in 0..MaxOrigin,
          f \in 0..MaxOrigin, width \in 1..MaxRasterDim, height \in 1..MaxRasterDim :
          rp_src = GeoRaster(crs, Affine(Frac(res, 1), c, Frac(-res, 1), f), width, height)
    /\ target_crs \in ShiftCRSs
    /\ target_resolution \in 1..MaxResolution
    /\ rp_pc = "start"
    /\ rp_dst = NoRaster

ReprojectAndResample ==
    /\ rp_pc = "start"
    /\ rp_dst' = reproject_and_resample(rp_src, target_crs, target_resolution)
    /\ rp_pc' = "done"
    /\ UNCHANGED <<rp_src, target_crs, target_resolution>>
    /\ UNCHANGED otherThanReproject

ReprojectNext == ReprojectAndResample

InitReproject ==
    ReprojectInit /\ TilingIdle /\ OverlapIdle /\ BandsIdle /\ ProcessIdle /\ FusionIdle
      /\ ClipIdle /\ NdviIdle /\ BatchIdle

SpecReproject == InitReproject /\ [][ReprojectNext]_vars

(***************************************************************************)
(* Properties of the tiling scripts.                                       *)
(***************************************************************************)
TileIndexes == DOMAIN tiles

\* pixel (r, c) lies in the window of tile t
InWindow(t, r, c) == t.row <= r /\ r < t.row + t.h /\ t.col <= c /\ c < t.col + t.w

\* two tiles share a pixel
WindowsMeet(t, u) ==
    /\ t.row < u.row + u.h /\ u.row < t.row + t.h
    /\ t.col < u.col + u.w /\ u.col < t.col + t.w

RECURSIVE SumArea(_)
SumArea(ts) == IF ts = <<>> THEN 0 ELSE Head(ts).h * Head(ts).w + SumArea(Tail(ts))

\* the windows of the sequence ts tile the rectangle of H rows and W columns
\* at the origin: they are non-empty, lie inside it, are pairwise disjoint
\* and their areas add up to H * W (so no pixel of it is left out)
RectCover(ts, H, W) ==
    /\ \A k \in DOMAIN ts :
          /\ ts[k].h >= 1 /\ ts[k].w >= 1
          /\ ts[k].row >= 0 /\ ts[k].row + ts[k].h <= H
          /\ ts[k].col >= 0 /\ ts[k].col + ts[k].w <= W
    /\ \A k, m \in DOMAIN ts : k # m => ~WindowsMeet(ts[k], ts[m])
    /\ SumArea(ts) = H * W

\* the same, pixel by pixel: every pixel of the H x W raster is in exactly
\* one window when it lies in the top-left fullH x fullW rectangle and in no
\* window otherwise
PixelCover(ts, H, W, fullH, fullW) ==
    \A r \in 0..(H - 1), c \in 0..(W - 1) :
        Cardinality({k \in DOMAIN ts : InWindow(ts[k], r, c)})
          = IF r < fullH /\ c < fullW THEN 1 ELSE 0

IsSmallInput == input \in SmallInputs

ClampDone ==
    /\ pc = "done"
    /\ tiler \in {"crop_and_save", "process_tiff_files"}
    /\ input.exists
    /\ tiler = "process_tiff_files" => Len(input.shape) >= 2

\* the raster's height and width as the clamp tiler reads them
ClampHeight == IF tiler = "crop_and_save" THEN input.shape[2] ELSE input.shape[1]
ClampWidth == IF tiler = "crop_and_save" THEN input.shape[3] ELSE input.shape[2]

TileBands == {tiles[k].band : k \in TileIndexes}

TilesOfBand(b) == SelectSeq(tiles, LAMBDA t : t.band = b)

\* C1: the windows written by a clamp tiler (crop_and_save of
\* sent-1_croper.py, process_tiff_files of tif_crop.py) cover every pixel of
\* the H x W raster exactly once, for each band that is tiled: no pixel is
\* outside all windows, none is in two, for every H, W, T >= 1.
ClampCoversExactlyOnce ==
    ClampDone =>
      /\ TileBands # {}
      /\ \A b \in TileBands :
           /\ RectCover(TilesOfBand(b), ClampHeight, ClampWidth)
           /\ IsSmallInput =>
                PixelCover(TilesOfBand(b), ClampHeight, ClampWidth,
                           ClampHeight, ClampWidth)

\* a clamp run that wrote at least four windows, the last one cut down in
\* both directions
ClampWitness ==
    /\ ClampDone
    /\ tiler = "process_tiff_files"
    /\ Len(tiles) >= 4
    /\ tiles[Len(tiles)].h < crop_size
    /\ tiles[Len(tiles)].w < crop_size

TruncateDone == pc = "done" /\ tiler = "crop_tiff_images"

FullExtent(extent) == (extent \div crop_size) * crop_size

\* C2: the windows written by one call of crop_image_slice or
\* crop_multi_channel_image on an H x W image are pairwise disjoint, each is
\* exactly T x T, and together they are exactly the top-left rectangle of
\* (H // T) * T rows by (W // T) * T columns; a pixel outside it is in no tile.
TruncateCoversFullTiles ==
    TruncateDone =>
      \A n \in DOMAIN calls :
        LET c == calls[n]
        IN  /\ \A k \in DOMAIN c.crops :
                  c.crops[k].h = crop_size /\ c.crops[k].w = crop_size
            /\ RectCover(c.crops, FullExtent(c.height), FullExtent(c.width))
            /\ IsSmallInput =>
                 PixelCover(c.crops, c.height, c.width,
                            FullExtent(c.height), FullExtent(c.width))

\* a call of crop_multi_channel_image that wrote several tiles and dropped a
\* remainder in both directions
TruncateWitness ==
    /\ TruncateDone
    /\ \E n \in DOMAIN calls :
          /\ calls[n].fn = "crop_multi_channel_image"
          /\ Len(calls[n].crops) >= 2
          /\ calls[n].height % crop_size # 0
          /\ calls[n].width % crop_size # 0

\* C3: within one run of crop_tiff_images, for one source file of any
\* supported rank, every tile written gets a file name of its own: K tiles
\* have K distinct names, also across the pages of a stack.
TileNamesInjective ==
    TruncateDone =>
      \A k, m \in TileIndexes : k # m => tiles[k].name # tiles[m].name

\* the number of tiles written with h rows and w columns
CountSize(h, w) == Cardinality({k \in TileIndexes : tiles[k].h = h /\ tiles[k].w = w})

ScenarioDone == pc = "done" /\ crop_size = DefaultCropSize /\ ~IsSmallInput

PolicyA == tiler \in {"crop_and_save", "process_tiff_files"}
PolicyB == tiler = "crop_tiff_images"

Is2048 == input.shape \in {<<2048, 2048>>, <<1, 2048, 2048>>}
Is2049 == input.shape \in {<<2049, 2049>>, <<1, 2049, 2049>>}

\* C4 as stated: with tile size 1024, a 2048 x 2048 single-band raster gives
\* 4 tiles of 1024 x 1024 under policy A; a 2049 x 2049 raster gives 4 full
\* tiles plus edge tiles of size 1 x 2049, 2049 x 1 and 1 x 1 under policy A,
\* and 4 tiles in total under policy B.
ScenarioAsStated ==
    ScenarioDone =>
      /\ (PolicyA /\ Is2048) =>
            Len(tiles) = 4 /\ CountSize(1024, 1024) = 4
      /\ (PolicyA /\ Is2049) =>
            /\ CountSize(1024, 1024) = 4
            /\ CountSize(1, 2049) = 1
            /\ CountSize(2049, 1) = 1
            /\ CountSize(1, 1) = 1
            /\ Len(tiles) = 7
      /\ (PolicyB /\ Is2049) => Len(tiles) = 4

\* C4 as amended: with tile size 1024, a 2048 x 2048 single-band raster gives
\* 4 tiles of 1024 x 1024 under policy A; a 2049 x 2049 raster gives 9 tiles
\* under policy A, the 4 full tiles, two of 1 x 1024, two of 1024 x 1 and
\* one of 1 x 1; under policy B it gives 4 tiles in total, all 1024 x 1024.
ScenarioTiles ==
    ScenarioDone =>
      /\ (PolicyA /\ Is2048) =>
            Len(tiles) = 4 /\ CountSize(1024, 1024) = 4
      /\ (PolicyA /\ Is2049) =>
            /\ CountSize(1024, 1024) = 4
            /\ CountSize(1, 1024) = 2
            /\ CountSize(1024, 1) = 2
            /\ CountSize(1, 1) = 1
            /\ Len(tiles) = 9
      /\ (PolicyB /\ Is2049) =>
            Len(tiles) = 4 /\ CountSize(1024, 1024) = 4

\* crop_and_save has tiled the 2049 x 2049 raster
ScenarioWitness ==
    /\ ScenarioDone
    /\ tiler = "crop_and_save"
    /\ Is2049
    /\ Len(tiles) > 4

(***************************************************************************)
(* Properties of the overlap crop.                                         *)
(***************************************************************************)
Wgs84Bounds(raster) == BBox(get_bounds(raster).wgs84.coords)

\* the two footprints in WGS84 have no point in common
DisjointInWgs84 ==
    LET a == Wgs84Bounds(s1)
        b == Wgs84Bounds(s2)
    IN  \/ a.right < b.left \/ b.right < a.left
        \/ a.top < b.bottom \/ b.top < a.bottom

OverlapComputed == ov_pc \in {"crop_s1", "crop_s2", "returned"}

\* C5: for two rasters whose bounds are disjoint in WGS84, crop_to_overlap
\* finds the overlap empty, returns without raising and without attempting a
\* crop, and writes no cropped file for either raster.
DisjointMeansNoCrop ==
    (ov_pc # "idle" /\ DisjointInWgs84) =>
      /\ ov_pc \in {"start", "returned"}
      /\ cropped = {}
      /\ ov_pc = "returned" =>
            /\ is_empty(overlap_area)
            /\ ov_log = << Report("crop_to_overlap", "no_overlap") >>

\* crop_to_overlap has returned on two rasters of different reference
\* systems whose footprints are disjoint
DisjointWitness ==
    /\ ov_pc = "returned"
    /\ DisjointInWgs84
    /\ s1.crs # s2.crs
    /\ s2.crs # "EPSG:4326"

Corners(b) ==
    {<<b.left, b.bottom>>, <<b.left, b.top>>, <<b.right, b.top>>, <<b.right, b.bottom>>}

Vertices(g) == {g.coords[k] : k \in DOMAIN g.coords}

\* the polygon g is the rectangle b
IsRectangle(g, b) == g.kind = "Polygon" /\ Vertices(g) = Corners(b)

Cross(a, b, p) == (b[1] - a[1]) * (p[2] - a[2]) - (b[2] - a[2]) * (p[1] - a[1])

\* point p lies in the convex polygon g (its ring taken in order)
InConvexPolygon(g, p) ==
    LET n == Len(g.coords)
    IN  \/ \A k \in 1..(n - 1) : Cross(g.coords[k], g.coords[k + 1], p) >= 0
        \/ \A k \in 1..(n - 1) : Cross(g.coords[k], g.coords[k + 1], p) <= 0

RasterOf(file) == IF file.image_type = "Sentinel-1" THEN s1 ELSE s2

\* the raster's reference system takes its bounding rectangle to a
\* rectangle of WGS84 with parallel sides
KeepsRectangles(raster) ==
    IsRectangle(transform_geom(raster.crs, "EPSG:4326",
                               box(raster.bounds.left, raster.bounds.bottom,
                                   raster.bounds.right, raster.bounds.top)),
                Wgs84Bounds(raster))

BandsHarmonized ==
    lb_status = "loaded" =>
      /\ meta = product.shape10
      /\ \A k \in DOMAIN required_bands : bands[required_bands[k]] = meta

(***************************************************************************)
(* Properties of the fusion pipeline.                                      *)
(***************************************************************************)
NumInputs == Len(input_files)

SameShapes == \A k \in 1..NumInputs : input_files[k].shape = input_files[1].shape

Aligned ==
    \A k \in 1..NumInputs :
        /\ input_files[k].shape = input_files[1].shape
        /\ input_files[k].transform = input_files[1].transform

StackReturned == fu_pc \in {"stacked", "normalized"}

\* C8: stack_rasters on N rasters of identical shape writes a raster with
\* exactly N bands in which output band k is the data of input k, in input
\* order, and nothing of an input's data (none of its bands) is dropped.
StackKeepsData ==
    (StackReturned /\ SameShapes) =>
      /\ Len(stacked.bands) = NumInputs
      /\ stacked.written = 1..NumInputs
      /\ \A k \in 1..NumInputs : << stacked.bands[k] >> = input_files[k].bands

\* C9: stack_rasters fails with an error and leaves no stacked output
\* whenever an input's shape or affine transform differs from the first
\* input's.
MismatchIsFatal ==
    (fu_pc \notin {"idle", "start"} /\ ~Aligned) =>
      /\ fu_pc = "stack_failed"
      /\ stacked = NoFile

AllValues(file) ==
    {file.bands[b][p] : b \in DOMAIN file.bands, p \in 1..NumPixels(file.shape)}

InUnitRange(v) == v.den > 0 /\ 0 <= v.num /\ v.num <= v.den

\* C10: normalize_raster rescales every band of the stacked raster with one
\* minimum and one maximum taken over all bands: every band of the output is
\* written, every output value is in [0, 1], the pixels holding the global
\* minimum map to 0 and those holding the global maximum map to 1, whichever
\* band they lie in (stated for a raster that is not constant).
NormalizesAllBands ==
    LET lo == SetMin(AllValues(stacked))
        hi == SetMax(AllValues(stacked))
    IN  (fu_pc = "normalized" /\ lo < hi) =>
          /\ normalized.written = DOMAIN stacked.bands
          /\ \A b \in DOMAIN stacked.bands, p \in 1..NumPixels(stacked.shape) :
               LET v == normalized.bands[b][p]
               IN  /\ InUnitRange(v)
                   /\ stacked.bands[b][p] = lo => v.num = 0
                   /\ stacked.bands[b][p] = hi => v.num = v.den

IsConstant(data) == \A k \in DOMAIN data : data[k] = data[1]

IsNaN(v) == v.den = 0 /\ v.num = 0

\* C11: normalize_raster on a constant raster (minimum equal to maximum)
\* returns, and the band it writes holds defined values (a guarded result
\* such as all zeros), never not-a-number.
ConstantRasterGuarded ==
    (fu_pc = "normalized" /\ IsConstant(stacked.bands[1])) =>
      \A p \in 1..NumPixels(stacked.shape) :
        /\ ~IsNaN(normalized.bands[1][p])
        /\ normalized.bands[1][p].den > 0

(***************************************************************************)
(* Properties of the clip by feature.                                      *)
(***************************************************************************)
FeatureWindow(k) == mask_window(clip_src, gdf.features[k].geometry)

\* the feature has a geometry that shares some area with the raster
Intersects(k) ==
    /\ gdf.features[k].geometry # NoGeometry
    /\ HasArea(FeatureWindow(k))

\* the feature has a geometry that lies apart from the raster
EntirelyOutside(k) ==
    /\ gdf.features[k].geometry # NoGeometry
    /\ \/ FeatureWindow(k).left > FeatureWindow(k).right
       \/ FeatureWindow(k).bottom > FeatureWindow(k).top

WritesOf(k) == {n \in DOMAIN clip_written : clip_written[n].idx = k - 1}

OutputName(k) ==
    output_filename_of(clip_src.original_filename,
                       glacier_name_of(gdf, k - 1, gdf.features[k]),
                       clip_src.timestamp)

\* C12: when clip_with_shapefile returns, a feature entirely outside the
\* raster's extent has had no output file written for it, every feature of
\* the collection has been handled (one report each, in order), and every
\* feature that intersects the raster has had its output file written once
\* and a file of its name is in the output folder, wherever the failing
\* features stand in the sequence.
OutsideFeatureSkipped ==
    clip_pc = "returned" =>
      /\ Len(clip_log) = Len(gdf.features)
      /\ \A k \in DOMAIN gdf.features :
           /\ EntirelyOutside(k) =>
                 /\ WritesOf(k) = {}
                 /\ clip_log[k].what = "error"
           /\ Intersects(k) =>
                 /\ Cardinality(WritesOf(k)) = 1
                 /\ clip_log[k].what = "clipped"
                 /\ \E f \in clip_files : f.name = OutputName(k)
                 /\ \A n \in WritesOf(k) :
                      /\ clip_written[n].name = OutputName(k)
                      /\ clip_written[n].window = FeatureWindow(k)

\* a run over three features in which the first lies outside the raster
\* and a later one intersects it and was written
OutsideFeatureWitness ==
    /\ clip_pc = "returned"
    /\ Len(gdf.features) >= 3
    /\ EntirelyOutside(1)
    /\ \E k \in 2..Len(gdf.features) : Intersects(k) /\ WritesOf(k) # {}
    /\ \E k \in 2..Len(gdf.features) : EntirelyOutside(k)

(***************************************************************************)
(* Properties of the indices.                                              *)
(***************************************************************************)
\* C13: for non-negative band values calculate_ndvi divides by a number
\* that is never zero (NIR + RED + 1e-6), so no division error arises; a
\* pixel with RED = NIR = 0 gets 0, and a pixel with RED = 100, NIR = 200
\* gets (200 - 100) / (200 + 100 + 1e-6).
NdviDenominatorNonZero ==
    ndvi_pc = "calculated" =>
      /\ DOMAIN ndvi_index = DOMAIN band_values["B04"]
      /\ \A p \in DOMAIN ndvi_index :
           LET red == band_values["B04"][p]
               nir == band_values["B08"][p]
           IN  /\ ndvi_index[p].den > 0
               /\ (red = 0 /\ nir = 0) => ndvi_index[p].num = 0
               /\ (red = 100 /\ nir = 200) =>
                     ndvi_index[p] = Frac(100 * InverseEpsilon, 300 * InverseEpsilon + 1)

\* NDVI was calculated for a band pair with a pixel where RED = NIR = 0 and
\* a pixel where RED = 100 and NIR = 200
NdviWitness ==
    /\ ndvi_pc = "calculated"
    /\ \E p \in DOMAIN ndvi_index :
         band_values["B04"][p] = 0 /\ band_values["B08"][p] = 0
    /\ \E p \in DOMAIN ndvi_index :
         band_values["B04"][p] = 100 /\ band_values["B08"][p] = 200

LacksBand == \E k \in DOMAIN required_bands : required_bands[k] \notin product.available

\* C14: for a product that lacks the file of a required band, load_bands
\* never completes and ends in an error, and process_sentinel_image
\* derives no index and writes no output file.
NoIndexWithoutBands ==
    (lb_status # "idle" /\ LacksBand) =>
      /\ lb_status \in {"loading", "failed"}
      /\ lb_status = "failed" <=> ps_pc = "error"
      /\ ps_pc \in {"try", "error"}
      /\ indices = <<>>
      /\ outputs = {}

\* load_bands failed on the last required band after it had loaded the
\* other five
NoIndexWitness ==
    /\ LacksBand
    /\ lb_status = "failed"
    /\ ps_pc = "error"
    /\ lb_i = Len(required_bands)
    /\ DOMAIN bands = {required_bands[k] : k \in 1..(Len(required_bands) - 1)}

(***************************************************************************)
(* Properties of the batch loops.                                          *)
(***************************************************************************)
\* C15: in crop_tiff_images and process_tiff_files a failure while one
\* input file is handled never aborts the batch: no exception leaves the
\* loop, and a run that has ended has handled every file of the listing
\* and has reported the summary counts.
BatchNeverAborts ==
    /\ batch_pc # "aborted"
    /\ batch_pc = "summary" =>
          /\ Len(batch_log) = Len(listing) + 1
          /\ batch_log[Len(batch_log)].who = "Summary"

(***************************************************************************)
(* Further properties of the overlap crop.                                 *)
(***************************************************************************)
\* the two WGS84 footprints meet, but only along an edge or at a corner
TouchingInWgs84 ==
    LET a == Wgs84Bounds(s1)
        b == Wgs84Bounds(s2)
        minx == Max(a.left, b.left)
        miny == Max(a.bottom, b.bottom)
        maxx == Min(a.right, b.right)
        maxy == Min(a.top, b.top)
    IN  /\ minx <= maxx
        /\ miny <= maxy
        /\ minx = maxx \/ miny = maxy

\* C16: when the two WGS84 footprints only touch (their intersection is a
\* line or a point, of zero area), crop_to_overlap treats the overlap as
\* empty: it attempts no crop and writes no output for either raster.
TouchingMeansNoCrop ==
    (ov_pc # "idle" /\ TouchingInWgs84) =>
      /\ ov_pc \in {"start", "returned"}
      /\ cropped = {}
      /\ \A k \in DOMAIN ov_log : ov_log[k].who = "crop_to_overlap"

ReportsOf(who) == {k \in DOMAIN ov_log : ov_log[k].who = who}

\* the crop of the Sentinel-1 raster was attempted and wrote no file
S1CropFailed ==
    /\ ReportsOf("Sentinel-1") # {}
    /\ \A k \in ReportsOf("Sentinel-1") : ov_log[k].what # "saved"

\* C17: whenever the crop of the first raster (Sentinel-1) fails, at the
\* transformation of the overlap geometry, at the mask or at the write, that
\* clip is skipped and reported by crop_and_save, and the crop of the second
\* raster (Sentinel-2) is still attempted before crop_to_overlap returns.
ClipsAreIndependent ==
    (ov_pc = "returned" /\ S1CropFailed) =>
      /\ \A f \in cropped : f.image_type # "Sentinel-1"
      /\ \A k \in ReportsOf("Sentinel-1") :
           ov_log[k].what \in {"crop_error", "unexpected_error"}
      /\ ReportsOf("Sentinel-2") # {}

\* C18: the geometry that masks a raster is the overlap polygon with every
\* vertex taken from WGS84 into that raster's own reference system: it is
\* recorded with the raster's CRS, and it is neither the WGS84 polygon nor
\* the polygon in the other raster's CRS unless those coincide with it.
MaskedInOwnCrs ==
    \A f \in cropped :
      LET own == RasterOf(f).crs
      IN  /\ f.geom_crs = own
          /\ f.geom.kind = overlap_area.kind
          /\ DOMAIN f.geom.coords = DOMAIN overlap_area.coords
          /\ \A k \in DOMAIN overlap_area.coords :
               /\ f.geom.coords[k] = from_wgs84(own, overlap_area.coords[k])
               /\ to_wgs84(own, f.geom.coords[k]) = overlap_area.coords[k]

\* both rasters were cropped, they have different reference systems and
\* neither is WGS84, and the two mask geometries differ
OwnCrsWitness ==
    /\ ov_pc = "returned"
    /\ s1.crs # s2.crs
    /\ s1.crs # "EPSG:4326"
    /\ s2.crs # "EPSG:4326"
    /\ \E f \in cropped, g \in cropped :
         /\ f.image_type = "Sentinel-1"
         /\ g.image_type = "Sentinel-2"
         /\ f.geom # g.geom
         /\ f.geom # overlap_area
         /\ g.geom # overlap_area

(***************************************************************************)
(* Further properties of the tiling scripts.                               *)
(***************************************************************************)
\* tile t lies inside its parent of H rows and W columns, is not empty and
\* not larger than the tile size T, and the array written has the height
\* and width recorded for the tile
TileInside(t, H, W, T) ==
    /\ t.row >= 0 /\ t.row + t.h <= H
    /\ t.col >= 0 /\ t.col + t.w <= W
    /\ 1 <= t.h /\ t.h <= T
    /\ 1 <= t.w /\ t.w <= T
    /\ t.data_h = t.h
    /\ t.data_w = t.w

\* C19: every tile written by a tiler, clamp or truncate, lies inside the
\* raster it was cut from (the height and width the tiler reads off it):
\* origin_row + height <= parent height, origin_col + width <= parent
\* width, 1 <= height <= tile_size, 1 <= width <= tile_size, and the data
\* written has exactly the recorded height and width.
TilesInsideParent ==
    /\ ClampDone =>
          \A k \in TileIndexes :
            TileInside(tiles[k], ClampHeight, ClampWidth, crop_size)
    /\ TruncateDone =>
          /\ \A n \in DOMAIN calls : \A k \in DOMAIN calls[n].crops :
                TileInside(calls[n].crops[k], calls[n].height, calls[n].width, crop_size)
          /\ tiles = Flatten([n \in DOMAIN calls |-> calls[n].crops])

\* crop_and_save has written at least four windows, the last one cut down
\* in both directions
TilesInsideWitness ==
    /\ pc = "done"
    /\ tiler = "crop_and_save"
    /\ Len(tiles) >= 4
    /\ tiles[Len(tiles)].h < crop_size
    /\ tiles[Len(tiles)].w < crop_size
    /\ tiles[Len(tiles)].data_h = tiles[Len(tiles)].h

GlcmDone == pc = "done" /\ tiler = "crop_and_save" /\ is_glcm /\ input.exists

\* the windows of the run: the origins of the tiles written
GlcmWindows ==
    {<<c, r>> : c \in {i \in 0..(input.shape[3] - 1) : i % crop_size = 0},
                r \in {j \in 0..(input.shape[2] - 1) : j % crop_size = 0}}

\* the tiles written for band b of the window at column c and row r
GlcmTilesAt(c, r, b) ==
    {k \in TileIndexes : tiles[k].col = c /\ tiles[k].row = r /\ tiles[k].band = b}

\* C20: crop_and_save with is_glcm = True writes, for every window and for
\* every band of the source raster whatever the number of bands, exactly
\* one single-band tile; no band is left untiled and no two tiles share a
\* file name.
GlcmTilesEveryBand ==
    GlcmDone =>
      /\ \A win \in GlcmWindows : \A b \in 1..input.shape[1] :
            Cardinality(GlcmTilesAt(win[1], win[2], b)) = 1
      /\ \A k \in TileIndexes : tiles[k].band \in 1..input.shape[1]
      /\ \A k, m \in TileIndexes : k # m => tiles[k].name # tiles[m].name

(***************************************************************************)
(* The rank dispatch of crop_tiff_images and the kind of the image.        *)
(***************************************************************************)
\* the files that tifffile.imread can have read the array of the run from
TiffImages ==
    {TiffImage(p, h, w, c) : p \in 1..MaxDim, h \in 1..MaxDim, w \in 1..MaxDim,
                             c \in {1, 3, 4}}

ImagesRead == {im \in TiffImages : imread_shape(im) = input.shape}

\* an ordinary multi-channel image: one page of 3 or 4 samples per pixel
IsMultiChannel(im) == im.pages = 1 /\ im.channels \in {3, 4}

\* a multi-page stack of single-band pages
IsPageStack(im) == im.pages > 1 /\ im.channels = 1

\* the image went through crop_multi_channel_image in one piece
TiledAsOneUnit(im) ==
    /\ Len(calls) = 1
    /\ calls[1].fn = "crop_multi_channel_image"
    /\ calls[1].height = im.height
    /\ calls[1].width = im.width

\* the image went through crop_image_slice once per page, in page order
TiledPageByPage(im) ==
    /\ Len(calls) = im.pages
    /\ \A k \in DOMAIN calls :
          /\ calls[k].fn = "crop_image_slice"
          /\ calls[k].page = k - 1
          /\ calls[k].height = im.height
          /\ calls[k].width = im.width

\* C21: the rank dispatch of crop_tiff_images maps each image to the one
\* tiling procedure of its kind, for every array shape: a multi-channel
\* image of 3 or 4 channels is tiled as one multi-channel unit and a
\* multi-page stack of single-band pages is tiled page by page along its
\* outer axis; no stack is tiled as a multi-channel image and no
\* multi-channel image is split per channel.
DispatchMatchesKind ==
    TruncateDone =>
      \A im \in ImagesRead :
        /\ IsMultiChannel(im) => TiledAsOneUnit(im)
        /\ IsPageStack(im) => TiledPageByPage(im)

(***************************************************************************)
(* Reprojection and the grid of the raster written.                        *)
(***************************************************************************)
\* the source's bounds expressed in the target reference system
TargetBounds == transform_bounds(rp_src.crs, target_crs, raster_bounds(rp_src))

\* count pixels of the given size span the given length
Spans(count, size, length) == count * size.num = length * size.den

\* C22: the raster written by reproject_and_resample has width and height
\* matching the grid that its transform implies, for every
\* target_resolution: the extent covered by (transform, width, height) is
\* the source's bounds expressed in the target reference system, also when
\* target_resolution differs from the source's pixel size.
ReprojectedGridMatches ==
    rp_pc = "done" =>
      /\ rp_dst.transform.c = TargetBounds.left
      /\ rp_dst.transform.f = TargetBounds.top
      /\ Spans(rp_dst.width, rp_dst.transform.a, TargetBounds.right - TargetBounds.left)
      /\ Spans(rp_dst.height, rp_dst.transform.e, TargetBounds.bottom - TargetBounds.top)

(***************************************************************************)
(* The summary of crop_tiff_images and the tiles on disk.                  *)
(***************************************************************************)
CropperSummary == script = "crop_tiff_images" /\ batch_pc = "summary"

\* the tiles that the dispatch cuts from the file number k of the listing
CropsOfFile(k) ==
    LET made == crop_tiff_dispatch(listing[k].shape, listing[k].name,
                                   "20250102_121037", BatchCropSize)
    IN  Flatten([n \in DOMAIN made |-> made[n].crops])

\* the input files that were read, tiled and had each of their tiles
\* written
FilesFullyWritten ==
    {k \in DOMAIN listing :
        /\ is_tiff_name(listing[k].name)
        /\ ~is_hidden_name(listing[k].name)
        /\ supported_rank(listing[k].shape)
        /\ \/ listing[k].fault = "none"
           \/ listing[k].fault = "imwrite_error" /\ CropsOfFile(k) = <<>>}

\* C23: at the end of crop_tiff_images the reported "Total crops
\* generated" is the number of tile files that the run left on disk and
\* "Total files processed" is the number of input files whose tiles were
\* all written, for every sequence of input files, files of rank 4 and
\* files that fail part-way included.
SummaryCountsMatchDisk ==
    CropperSummary =>
      /\ run_total_crops = Cardinality(disk)
      /\ run_processed_files = Cardinality(FilesFullyWritten)

\* file_output_folder of the file number k of the listing
OutputFolderOf(k) == Join(safe_name(splitext_root(listing[k].name)))

\* every tile cut from the file number k is on disk as that file's tile
TilesOnDisk(k) ==
    \A n \in DOMAIN CropsOfFile(k) :
       DiskFile(OutputFolderOf(k), CropsOfFile(k)[n], k) \in disk

\* C24: within one run of crop_tiff_images the tiles written for one input
\* file are not deleted or overwritten while another input file is
\* processed: after the run every input file that was processed
\* successfully has all of its tiles on disk, for every set of file names,
\* names that differ only in their extension included.
TilesSurviveOtherFiles ==
    CropperSummary => \A k \in FilesFullyWritten : TilesOnDisk(k)
====
